---- MODULE Spec2Model ----
(***************************************************************************)
(* Model of src/app.py: the Flask handlers analyze, get_logs and           *)
(* get_crew_result, the ThreadPoolExecutor that runs create_crewai_setup,  *)
(* the global dictionary crew_result_store and the queue output_queue      *)
(* that StreamToQueue.write fills.                                         *)
(***************************************************************************)
EXTENDS Integers, Sequences, FiniteSets, TLC

(* ---------------------------------------------------------------- bounds *)
MaxJobs == 2          \* work items submitted to the executor
MaxWrites == 2        \* calls of StreamToQueue.write
MaxReads == 2         \* calls of get_logs

(* ------------------------------------------------------ program constants *)
max_workers == 5
NotAvailable == "Result not available yet."
MissingIdentity == "There is a missing identity"
ProcessingStarted == "Processing started"

(* --------------------------------------------------------- request values *)
\* A request field as Python sees it: None (absent), a str, or a JSON number.
\* v is the text of the value; a str and a number never compare equal.
None == [t |-> "none", v |-> ""]
S(x) == [t |-> "str", v |-> x]
N(x) == [t |-> "num", v |-> x]

\* Python truthiness of a field, as all([...]) tests it.
Truthy(x) == /\ x.t # "none"
             /\ ~(x.t = "str" /\ x.v = "")
             /\ ~(x.t = "num" /\ x.v = "0")

\* Values request.get_json().get(field) can yield for a POST /analyze body.
CategoryVals == {None, S("Beach")}
BudgetVals == {S(""), S("2"), N("2")}
PeopleVals == {S(""), S("3")}
TripVals == {None, S("Solo")}
MonthVals == {None, S("May")}
\* Values request.args.get(field) can yield for GET /crew_result: str or None.
ArgCategoryVals == {None, S("Beach")}
ArgBudgetVals == {S(""), S("2")}
ArgPeopleVals == {S(""), S("3")}
ArgTripVals == {S("Solo")}
ArgMonthVals == {None, S("May")}

\* What travel_crew.kickoff() can return, and what it can raise.
Results == {"r1", "r2"}
Errors == {"boom"}

\* Text handed to sys.stdout.write / sys.stderr.write, as character sequences.
Whitespace == {" ", "\n"}
Messages == { <<"\n">>, <<"a">>, <<" ", "b", "\n">> }

(* ------------------------------------------------------------ str.strip() *)
RECURSIVE LStrip(_)
LStrip(m) == IF m # <<>> /\ Head(m) \in Whitespace THEN LStrip(Tail(m)) ELSE m

RECURSIVE RStrip(_)
RStrip(m) == IF m # <<>> /\ m[Len(m)] \in Whitespace
             THEN RStrip(SubSeq(m, 1, Len(m) - 1)) ELSE m

strip(m) == RStrip(LStrip(m))

(* ------------------------------------------------------------------ keys *)
\* key = (category, trip_type, month, budget, num_people) in create_crewai_setup
StoreKey(category, budget, num_people, trip_type, month) ==
    <<category, trip_type, month, budget, num_people>>

\* key = (category, trip_type, month, budget, num_people) in get_crew_result
LookupKey(category, budget, num_people, trip_type, month) ==
    <<category, trip_type, month, budget, num_people>>

\* The test with month forgotten: all([category, budget, num_people, trip_type])
AllPresentButMonth(category, budget, num_people, trip_type, month) ==
    /\ Truthy(category) /\ Truthy(budget) /\ Truthy(num_people)
    /\ Truthy(trip_type)

\* all([category, budget, num_people, trip_type, month])
AllPresent(category, budget, num_people, trip_type, month) ==
    /\ Truthy(category) /\ Truthy(budget) /\ Truthy(num_people)
    /\ Truthy(trip_type) /\ Truthy(month)

(* ------------------------------------------------------------------ state *)
VARIABLES
    crew_result_store,   \* dict: key -> crew_result
    output_queue,        \* queue.Queue of stripped messages, oldest first
    calls,               \* the get_logs calls in call order, under way or returned
    executor,            \* work items in submission order, each with its state
    submitted,           \* number of executor.submit calls counted against MaxJobs
    response,            \* the last response of analyze or get_crew_result
    writes,              \* history: every message passed to write, in order
    completed,           \* history: work items in the order they ended
    overlapped,          \* history: pairs of work items that ran at the same time
    quiet                \* history: what happened since a get_logs call returned

vars == <<crew_result_store, output_queue, calls, executor, submitted, response,
          writes, completed, overlapped, quiet>>

jobVars == <<crew_result_store, executor, submitted, response, completed, overlapped>>
logVars == <<output_queue, calls, writes, quiet>>

Jobs == DOMAIN executor

\* A response as jsonify builds it.
Resp(op, status, body) == [op |-> op, status |-> status, body |-> body]
NoResponse == Resp("none", 0, "")

\* A get_logs call: the place of its request thread in get_logs (done once
\* it has returned) and its local list logs, which it returns. As history:
\* snaps, the contents of the queue the call has lived through; snapshot,
\* whether what it returned is one of them; quietRet and quietChk, whether
\* quiet.ret and quiet.chk held when it was made and nothing was put since;
\* sawEmpty, whether nothing was put since the empty() test that ended its loop.
NewCall(logs) ==
    [pc |-> "check", logs |-> logs, snaps |-> {output_queue}, snapshot |-> FALSE,
     quietRet |-> quiet.ret, quietChk |-> quiet.chk, sawEmpty |-> FALSE]

Active(k) == calls[k].pc # "done"

\* quiet.ret: some get_logs call has returned and nothing was put since.
\* quiet.chk: some get_logs call has returned and nothing was put since the
\*            empty() test that ended its loop.
NotQuiet == [ret |-> FALSE, chk |-> FALSE]

Init ==
    /\ crew_result_store = [k \in {} |-> ""]
    /\ output_queue = <<>>
    /\ executor = <<>>
    /\ submitted = 0
    /\ response = NoResponse
    /\ writes = <<>>
    /\ calls = <<>>
    /\ completed = <<>>
    /\ overlapped = {}
    /\ quiet = NotQuiet

(* ------------------------------------------------------- POST /analyze *)
\* executor.submit(create_crewai_setup, category, budget, num_people, trip_type, month)
\* A submit that runs the call on the request thread's behalf at once
\* instead of queueing it.
submit_started(category, budget, num_people, trip_type, month) ==
    Append(executor, [args |-> <<category, budget, num_people, trip_type, month>>,
                      st |-> "kickoff", res |-> "", puts |-> <<>>])

\* As history, puts: the keys the work item has stored under, in order.
submit(category, budget, num_people, trip_type, month) ==
    Append(executor, [args |-> <<category, budget, num_people, trip_type, month>>,
                      st |-> "queued", res |-> "", puts |-> <<>>])

analyze(category, budget, num_people, trip_type, month) ==
    /\ IF ~AllPresent(category, budget, num_people, trip_type, month)
       THEN /\ response' = Resp("analyze", 400, MissingIdentity)
            /\ UNCHANGED <<executor, submitted>>
       ELSE /\ submitted < MaxJobs
            /\ executor' = submit(category, budget, num_people, trip_type, month)
            /\ submitted' = submitted + 1
            /\ response' = Resp("analyze", 200, ProcessingStarted)
    /\ UNCHANGED <<crew_result_store, completed, overlapped>>
    /\ UNCHANGED logVars

(* ------------------------------------------------- ThreadPoolExecutor *)
\* A pool whose worker thread dies with the exception of its work item, so
\* that a raised work item keeps its slot.
RunningOrRaised(i) == executor[i].st \in {"kickoff", "hung", "raised"}
\* A pool that takes the worker away from a call of kickoff() that is stuck.
RunningNotHung(i) == executor[i].st = "kickoff"
\* A work item occupies a worker thread from the moment it is taken off the
\* work queue until create_crewai_setup returns or raises; "hung" is a call of
\* kickoff() that will never return.
Running(i) == executor[i].st \in {"kickoff", "hung"}
Ended(i) == executor[i].st \in {"done", "raised"}

\* A pool that lets one work item more than max_workers run.
worker_start_one_more(i) ==
    /\ i \in Jobs
    /\ executor[i].st = "queued"
    /\ \A j \in 1..(i - 1) : executor[j].st # "queued"
    /\ Cardinality({j \in Jobs : Running(j)}) <= max_workers
    /\ executor' = [executor EXCEPT ![i].st = "kickoff"]
    /\ overlapped' = overlapped \cup {{i, j} : j \in {k \in Jobs : Running(k)}}
    /\ UNCHANGED <<crew_result_store, submitted, response, completed>>
    /\ UNCHANGED logVars

\* An idle (or not yet spawned) worker takes the oldest queued work item.
worker_start(i) ==
    /\ i \in Jobs
    /\ executor[i].st = "queued"
    /\ \A j \in 1..(i - 1) : executor[j].st # "queued"
    /\ Cardinality({j \in Jobs : Running(j)}) < max_workers
    /\ executor' = [executor EXCEPT ![i].st = "kickoff"]
    /\ overlapped' = overlapped \cup {{i, j} : j \in {k \in Jobs : Running(k)}}
    /\ UNCHANGED <<crew_result_store, submitted, response, completed>>
    /\ UNCHANGED logVars

(* ------------------------------------------------ create_crewai_setup *)
\* A store that keeps only the entry written last.
store_put_fresh(store, key, crew_result) ==
    [k \in {key} |-> crew_result]

\* crew_result_store[key] = crew_result
store_put(store, key, crew_result) ==
    [k \in DOMAIN store \cup {key} |-> IF k = key THEN crew_result ELSE store[k]]

\* key = (category, trip_type, month, budget, num_people) of a work item's arguments
KeyOf(i) == LET a == executor[i].args IN StoreKey(a[1], a[2], a[3], a[4], a[5])

\* crew_result = travel_crew.kickoff() returns; key is built; the result is
\* stored and returned, which resolves the Future and frees the worker.
create_crewai_setup(i, crew_result) ==
    /\ i \in Jobs
    /\ executor[i].st = "kickoff"
    /\ crew_result_store' = store_put(crew_result_store, KeyOf(i), crew_result)
    /\ executor' = [executor EXCEPT ![i].st = "done", ![i].res = crew_result,
                                    ![i].puts = Append(@, KeyOf(i))]
    /\ completed' = Append(completed, i)
    /\ UNCHANGED <<submitted, response, overlapped>>
    /\ UNCHANGED logVars

\* An executor that puts a work item whose call raised back into the queue.
kickoff_raise_retry(i, e) ==
    /\ i \in Jobs
    /\ executor[i].st = "kickoff"
    /\ executor' = [executor EXCEPT ![i].st = "queued"]
    /\ UNCHANGED <<crew_result_store, submitted, response, completed, overlapped>>
    /\ UNCHANGED logVars

\* travel_crew.kickoff() raises: lines 271-272 are skipped, the exception goes
\* into the Future that analyze discarded, and the worker is free again.
kickoff_raise(i, e) ==
    /\ i \in Jobs
    /\ executor[i].st = "kickoff"
    /\ executor' = [executor EXCEPT ![i].st = "raised", ![i].res = e]
    /\ completed' = Append(completed, i)
    /\ UNCHANGED <<crew_result_store, submitted, response, overlapped>>
    /\ UNCHANGED logVars

\* travel_crew.kickoff() never returns (an agent's LLM or search call blocks
\* for good): nothing in app.py times the call out or cancels it, so the work
\* item keeps its worker.
kickoff_hang(i) ==
    /\ i \in Jobs
    /\ executor[i].st = "kickoff"
    /\ executor' = [executor EXCEPT ![i].st = "hung"]
    /\ UNCHANGED <<crew_result_store, submitted, response, completed, overlapped>>
    /\ UNCHANGED logVars

(* ------------------------------------------------------ GET /crew_result *)
\* crew_result_store.get(key, "Result not available yet.")
store_get(store, key) ==
    IF key \in DOMAIN store THEN store[key] ELSE NotAvailable

\* A lookup by crew_result_store.setdefault(key, "Result not available yet."),
\* which stores the sentinel under a key it does not find.
get_crew_result_setdefault(category, budget, num_people, trip_type, month) ==
    LET key == LookupKey(category, budget, num_people, trip_type, month) IN
    /\ response' = Resp("crew_result", 200, store_get(crew_result_store, key))
    /\ crew_result_store' = store_put(crew_result_store, key,
                                      store_get(crew_result_store, key))
    /\ UNCHANGED <<executor, submitted, completed, overlapped>>
    /\ UNCHANGED logVars

get_crew_result(category, budget, num_people, trip_type, month) ==
    /\ response' = Resp("crew_result", 200,
                        store_get(crew_result_store,
                                  LookupKey(category, budget, num_people, trip_type, month)))
    /\ UNCHANGED <<crew_result_store, executor, submitted, completed, overlapped>>
    /\ UNCHANGED logVars

(* ------------------------------------------------ StreamToQueue.write *)
\* if message.strip(): self.queue.put(message.strip())
write_queue(q, message) ==
    IF strip(message) # <<>> THEN Append(q, strip(message)) ELSE q

\* What a put does to the history of the calls under way.
NotePut(q) ==
    [k \in DOMAIN calls |->
        IF Active(k)
        THEN [calls[k] EXCEPT !.snaps = @ \cup {q}, !.quietRet = FALSE,
                              !.quietChk = FALSE, !.sawEmpty = FALSE]
        ELSE calls[k]]

\* travel_crew.kickoff() prints while it runs; stdout and stderr are the queue.
write(i, message) ==
    /\ i \in Jobs
    /\ executor[i].st = "kickoff"
    /\ Len(writes) < MaxWrites
    /\ writes' = Append(writes, message)
    /\ output_queue' = write_queue(output_queue, message)
    /\ IF output_queue' # output_queue
       THEN /\ calls' = NotePut(output_queue')
            /\ quiet' = NotQuiet
       ELSE UNCHANGED <<calls, quiet>>
    /\ UNCHANGED jobVars

(* ------------------------------------------------------------ GET /logs *)
\* The list shared between calls and never cleared: logs starts as the last
\* call left it.
get_logs_call_stale ==
    /\ Len(calls) < MaxReads
    /\ calls' = Append(calls, NewCall(IF calls = <<>> THEN <<>>
                                      ELSE calls[Len(calls)].logs))
    /\ UNCHANGED <<output_queue, writes, quiet>>
    /\ UNCHANGED jobVars

\* A request thread enters get_logs: logs = []
get_logs_call ==
    /\ Len(calls) < MaxReads
    /\ calls' = Append(calls, NewCall(<<>>))
    /\ UNCHANGED <<output_queue, writes, quiet>>
    /\ UNCHANGED jobVars

\* output_queue.empty()
empty(q) == Len(q) = 0

\* while not output_queue.empty():
get_logs_check(k) ==
    /\ calls[k].pc = "check"
    /\ calls' = [calls EXCEPT ![k].pc = IF empty(output_queue) THEN "ret" ELSE "get",
                              ![k].sawEmpty = empty(output_queue)]
    /\ UNCHANGED <<output_queue, writes, quiet>>
    /\ UNCHANGED jobVars

\* logs.append(output_queue.get()): get() blocks while the queue is empty.
get_logs_get(k) ==
    /\ calls[k].pc = "get"
    /\ ~empty(output_queue)
    /\ output_queue' = Tail(output_queue)
    /\ calls' = [j \in DOMAIN calls |->
          IF j = k
          THEN [calls[k] EXCEPT !.pc = "check",
                                !.logs = Append(@, Head(output_queue)),
                                !.snaps = @ \cup {output_queue'}]
          ELSE IF Active(j) THEN [calls[j] EXCEPT !.snaps = @ \cup {output_queue'}]
          ELSE calls[j]]
    /\ UNCHANGED <<writes, quiet>>
    /\ UNCHANGED jobVars

\* return jsonify({'logs': logs})
get_logs_return(k) ==
    /\ calls[k].pc = "ret"
    /\ calls' = [calls EXCEPT ![k].pc = "done",
                              ![k].snapshot = calls[k].logs \in calls[k].snaps,
                              ![k].snaps = {},
                              ![k].sawEmpty = FALSE]
    /\ quiet' = [ret |-> TRUE, chk |-> quiet.chk \/ calls[k].sawEmpty]
    /\ UNCHANGED <<output_queue, writes>>
    /\ UNCHANGED jobVars

(* ------------------------------------------------------------------ Next *)
\* The request threads of /analyze and /crew_result and the worker threads.
NextJobs ==
    \/ \E c \in CategoryVals, b \in BudgetVals, n \in PeopleVals,
          t \in TripVals, m \in MonthVals : analyze(c, b, n, t, m)
    \/ \E i \in Jobs : worker_start(i)
    \/ \E i \in Jobs, x \in Results : create_crewai_setup(i, x)
    \/ \E i \in Jobs, e \in Errors : kickoff_raise(i, e)
    \/ \E i \in Jobs : kickoff_hang(i)
    \/ \E c \in ArgCategoryVals, b \in ArgBudgetVals, n \in ArgPeopleVals,
          t \in ArgTripVals, m \in ArgMonthVals : get_crew_result(c, b, n, t, m)

\* The output of the running work items and the request threads of /logs.
NextLogs ==
    \/ \E i \in Jobs, m \in Messages : write(i, m)
    \/ get_logs_call
    \/ \E k \in DOMAIN calls : get_logs_check(k)
    \/ \E k \in DOMAIN calls : get_logs_get(k)
    \/ \E k \in DOMAIN calls : get_logs_return(k)

Next == NextJobs \/ NextLogs

Spec == Init /\ [][Next]_vars

\* The result side alone: NextLogs changes none of jobVars and NextJobs
\* reads none of logVars.
JobSpec == Init /\ [][NextJobs]_vars

\* The log side alone, from the state Spec reaches when MaxJobs accepted
\* work items have all been started: nothing but write reads the executor
\* there, and it needs a work item inside kickoff().
InitLogs ==
    /\ crew_result_store = [k \in {} |-> ""]
    /\ output_queue = <<>>
    /\ executor = [i \in 1..MaxJobs |->
          [args |-> <<S("Beach"), S("2"), S("3"), S("Solo"), S("May")>>,
           st |-> "kickoff", res |-> "", puts |-> <<>>]]
    /\ submitted = MaxJobs
    /\ response = Resp("analyze", 200, ProcessingStarted)
    /\ writes = <<>>
    /\ calls = <<>>
    /\ completed = <<>>
    /\ overlapped = {{i, j} : i, j \in 1..MaxJobs} \ {{i} : i \in 1..MaxJobs}
    /\ quiet = NotQuiet

LogSpec == InitLogs /\ [][NextLogs]_vars

\* One work item from its output to its result: the state Spec reaches when
\* one accepted request has been started, then the writes of that work item,
\* the end of its kickoff() and the request threads of /logs.
InitFlow ==
    /\ crew_result_store = [k \in {} |-> ""]
    /\ output_queue = <<>>
    /\ executor = <<[args |-> <<S("Beach"), S("2"), S("3"), S("Solo"), S("May")>>,
                     st |-> "kickoff", res |-> "", puts |-> <<>>]>>
    /\ submitted = 1
    /\ response = Resp("analyze", 200, ProcessingStarted)
    /\ writes = <<>>
    /\ calls = <<>>
    /\ completed = <<>>
    /\ overlapped = {}
    /\ quiet = NotQuiet

NextFlow ==
    \/ NextLogs
    \/ \E i \in Jobs, x \in Results : create_crewai_setup(i, x)
    \/ \E i \in Jobs, e \in Errors : kickoff_raise(i, e)

FlowSpec == InitFlow /\ [][NextFlow]_vars

\* Both sides after the output has stopped: the state Spec reaches when one
\* accepted request has written "a" and " b\n" and its kickoff() has returned
\* "r1"; then the request threads of all three routes and the worker threads,
\* with one complete and one incomplete body for /analyze and one stored and
\* one unknown key for /crew_result.
ServeBodies == { <<S("Beach"), S("2"), S("3"), S("Solo"), S("May")>>,
                 <<S("Beach"), S("2"), S("3"), S("Solo"), None>> }
ServeArgs == { <<S("Beach"), S("2"), S("3"), S("Solo"), S("May")>>,
               <<S("Beach"), S("2"), S("3"), S("Solo"), None>> }

InitServe ==
    /\ crew_result_store = store_put([k \in {} |-> ""],
                                     StoreKey(S("Beach"), S("2"), S("3"), S("Solo"), S("May")),
                                     "r1")
    /\ output_queue = << <<"a">>, <<"b">> >>
    /\ executor = <<[args |-> <<S("Beach"), S("2"), S("3"), S("Solo"), S("May")>>,
                     st |-> "done", res |-> "r1",
                     puts |-> <<StoreKey(S("Beach"), S("2"), S("3"), S("Solo"), S("May"))>>]>>
    /\ submitted = 1
    /\ response = Resp("analyze", 200, ProcessingStarted)
    /\ writes = << <<"a">>, <<" ", "b", "\n">> >>
    /\ calls = <<>>
    /\ completed = <<1>>
    /\ overlapped = {}
    /\ quiet = NotQuiet

NextServe ==
    \/ \E a \in ServeBodies : analyze(a[1], a[2], a[3], a[4], a[5])
    \/ \E i \in Jobs : worker_start(i)
    \/ \E i \in Jobs, x \in Results : create_crewai_setup(i, x)
    \/ \E i \in Jobs, e \in Errors : kickoff_raise(i, e)
    \/ \E i \in Jobs : kickoff_hang(i)
    \/ \E a \in ServeArgs : get_crew_result(a[1], a[2], a[3], a[4], a[5])
    \/ get_logs_call
    \/ \E k \in DOMAIN calls : get_logs_check(k)
    \/ \E k \in DOMAIN calls : get_logs_get(k)
    \/ \E k \in DOMAIN calls : get_logs_return(k)

ServeSpec == InitServe /\ [][NextServe]_vars

\* The result side with the pool nearly used up: the state the program is in
\* when max_workers accepted requests have been started, kickoff() has
\* returned "r1" for the first of them and will never return for the others.
\* MaxJobs bounds the work items submitted from there on.
PoolArgs == <<S("Beach"), S("2"), S("3"), S("Solo"), S("May")>>

InitPool ==
    /\ crew_result_store = store_put([k \in {} |-> ""],
                                     StoreKey(PoolArgs[1], PoolArgs[2], PoolArgs[3],
                                              PoolArgs[4], PoolArgs[5]), "r1")
    /\ output_queue = <<>>
    /\ executor = [i \in 1..max_workers |->
          IF i = 1
          THEN [args |-> PoolArgs, st |-> "done", res |-> "r1",
                puts |-> <<StoreKey(PoolArgs[1], PoolArgs[2], PoolArgs[3],
                                    PoolArgs[4], PoolArgs[5])>>]
          ELSE [args |-> PoolArgs, st |-> "hung", res |-> "", puts |-> <<>>]]
    /\ submitted = 0
    /\ response = Resp("analyze", 200, ProcessingStarted)
    /\ writes = <<>>
    /\ calls = <<>>
    /\ completed = <<1>>
    /\ overlapped = {{i, j} : i, j \in 1..max_workers} \ {{i} : i \in 1..max_workers}
    /\ quiet = NotQuiet

PoolSpec == InitPool /\ [][NextJobs]_vars

\* The same with the scheduling the threads get: an idle worker thread does
\* take the next work item, and a call of kickoff() that is under way comes
\* to one of its ends (it returns, it raises, or it is stuck for good).
kickoff_ends(i) ==
    \/ \E x \in Results : create_crewai_setup(i, x)
    \/ \E e \in Errors : kickoff_raise(i, e)
    \/ kickoff_hang(i)

PoolFairSpec ==
    /\ PoolSpec
    /\ \A i \in 1..(max_workers + MaxJobs) :
          WF_vars(worker_start(i)) /\ WF_vars(kickoff_ends(i))

(* ================================================================ claims *)
\* A field that is missing or empty, in the words of the specification.
Missing(x) == x = None \/ x = S("")
AnyMissing(a) == \E k \in 1..5 : Missing(a[k])

\* The bodies POST /analyze can carry, and those with a missing or empty field.
Requests == CategoryVals \X BudgetVals \X PeopleVals \X TripVals \X MonthVals
RequestsWithMissing == {a \in Requests : AnyMissing(a)}

\* ReadResult for five field values.
ReadResult(a) == store_get(crew_result_store, LookupKey(a[1], a[2], a[3], a[4], a[5]))
\* The Outcome of an ended work item: its result, or the description of its failure.
OutcomeOf(i) == executor[i].res
\* The argument tuples GET /crew_result can carry.
ReadArgs == ArgCategoryVals \X ArgBudgetVals \X ArgPeopleVals \X ArgTripVals \X ArgMonthVals
\* The work item of a set that ended last.
LastEnded(J) == CHOOSE i \in J : \A j \in J :
    \E p, q \in DOMAIN completed : completed[p] = j /\ completed[q] = i /\ p <= q

(* ------------------------------------------------------------------- C1 *)
\* C1: every accepted job eventually has a terminal Outcome readable under
\* its five field values, whether kickoff() returns or raises. In the form a
\* finite run refutes: once every work item has ended and every worker is
\* free (nothing is left that could still write the store), ReadResult for
\* the fields of every accepted work item no longer returns the sentinel.
C1_EndedJobHasOutcome ==
    (\A i \in Jobs : Ended(i))
        => \A i \in Jobs : ReadResult(executor[i].args) # NotAvailable

(* ------------------------------------------------------------------- C2 *)
\* C2: a job whose function raised has an Error outcome stored under its key,
\* which ReadResult returns instead of the sentinel (no other job with the
\* same key).
C2_RaisedJobStoresError ==
    \A i \in Jobs :
        (/\ executor[i].st = "raised"
         /\ \A j \in Jobs \ {i} : KeyOf(j) # KeyOf(i))
        => /\ KeyOf(i) \in DOMAIN crew_result_store
           /\ crew_result_store[KeyOf(i)] = OutcomeOf(i)

(* ------------------------------------------------------------------- C3 *)
\* C3: a Submit with a missing or empty field returns the validation error
\* and creates no job: the step leaves the executor and the store as they
\* were, no work item ever has such a field, and every key of the store
\* belongs to an accepted work item.
C3_RejectStep ==
    (\E a \in RequestsWithMissing : analyze(a[1], a[2], a[3], a[4], a[5]))
        => /\ response' = Resp("analyze", 400, MissingIdentity)
           /\ executor' = executor
           /\ crew_result_store' = crew_result_store

C3_NoJobOfRejected ==
    /\ \A i \in Jobs : ~AnyMissing(executor[i].args)
    /\ \A k \in DOMAIN crew_result_store : \E i \in Jobs : KeyOf(i) = k /\ Ended(i)

\* C3: both parts: in every state no work item and no stored key stems from
\* a request with a missing or empty field, and every step that is such a
\* request answers with the validation error and changes neither the
\* executor nor the store.
C3_MissingFieldRejected == [](C3_NoJobOfRejected) /\ [][C3_RejectStep]_vars

\* A request was rejected while a work item was pending and a result stored.
C3_Witness ==
    /\ response = Resp("analyze", 400, MissingIdentity)
    /\ DOMAIN crew_result_store # {}
    /\ \E i \in Jobs : executor[i].st = "queued"

(* ------------------------------------------------------------------- C4 *)
\* C4: when two jobs with the same key ran at the same time and both have
\* ended, the store holds under that key the Outcome of the one that ended
\* last; and whatever the store holds under a key is the Outcome of one
\* ended job with that key.
C4_LastFinisherWins ==
    /\ \A i, j \in Jobs :
          (/\ i # j /\ {i, j} \in overlapped /\ KeyOf(i) = KeyOf(j)
           /\ \A k \in Jobs : KeyOf(k) = KeyOf(i) => Ended(k))
          => ReadResult(executor[i].args)
                = OutcomeOf(LastEnded({k \in Jobs : KeyOf(k) = KeyOf(i)}))
    /\ \A k \in DOMAIN crew_result_store :
          \E i \in Jobs : KeyOf(i) = k /\ Ended(i) /\ crew_result_store[k] = OutcomeOf(i)

(* ------------------------------------------------------------------- C5 *)
\* A write that yields an entry: text that is not only whitespace.
NonBlank(m) == \E k \in DOMAIN m : m[k] \notin Whitespace

RECURSIVE Entries(_)
\* The entries the writes of a history yield, in the order of the write calls.
Entries(w) ==
    IF w = <<>> THEN <<>>
    ELSE IF NonBlank(Head(w)) THEN <<strip(Head(w))>> \o Entries(Tail(w))
    ELSE Entries(Tail(w))

RECURSIVE Delivered(_)
\* What the get_logs calls of a history returned, concatenated in call order.
Delivered(cs) == IF cs = <<>> THEN <<>> ELSE Head(cs).logs \o Delivered(Tail(cs))

IsPrefix(p, q) == Len(p) <= Len(q) /\ SubSeq(q, 1, Len(p)) = p

\* C5: whenever no ReadLogs call is under way, what the calls so far have
\* returned, concatenated in call order, is a prefix of the entries written,
\* in the order of their write calls.
C5_LogsInWriteOrder ==
    (\A k \in DOMAIN calls : ~Active(k))
        => IsPrefix(Delivered(calls), Entries(writes))

C7_ReadLogsAtomic ==
    \A k \in DOMAIN calls : calls[k].pc = "done" => calls[k].snapshot

(* ------------------------------------------------------------------- C8 *)
\* C8: no ReadLogs call ever waits for an entry: a request thread about to
\* call output_queue.get() finds an entry to take.
C8_ReadLogsNeverBlocks ==
    \A k \in DOMAIN calls : calls[k].pc = "get" => ~empty(output_queue)

(* ------------------------------------------------------------------- C9 *)
\* A number and the string of the same number count as the same value.
Norm(x) == IF x.t = "num" THEN S(x.v) ELSE x

\* C9: the Outcome a completed job stored is the one ReadResult(g) looks up
\* if and only if the job's fields and g agree on all five after
\* normalization.
C9_SameKeyIffSameFields ==
    \A i \in Jobs, g \in ReadArgs :
        executor[i].st = "done"
        => ((KeyOf(i) = LookupKey(g[1], g[2], g[3], g[4], g[5]))
              <=> \A k \in 1..5 : Norm(executor[i].args[k]) = Norm(g[k]))

(* ------------------------------------------------------------------ C10 *)
\* C10: ReadResult(g) returns the sentinel if and only if no job submitted
\* with the fields g has completed (with a result or with a failure);
\* otherwise it returns the Outcome of the job that completed last.
C10_SentinelIffNoneCompleted ==
    \A g \in ReadArgs :
        LET J == {i \in Jobs : executor[i].args = g /\ Ended(i)} IN
        /\ (ReadResult(g) = NotAvailable) <=> (J = {})
        /\ J # {} => ReadResult(g) = OutcomeOf(LastEnded(J))

(* ------------------------------------------------------------------ C11 *)
\* C11: a work item has stored nothing while it is queued or running, and
\* once it has ended, by a return or by a raise, it has stored exactly once,
\* under its own key and under no other.
C11_OneStoreWritePerJob ==
    \A i \in Jobs :
        /\ ~Ended(i) => executor[i].puts = <<>>
        /\ Ended(i) => executor[i].puts = <<KeyOf(i)>>

(* ------------------------------------------------------------------ C12 *)
\* The work items inside create_crewai_setup, each on a worker thread of its own.
Busy == {i \in Jobs : executor[i].st \in {"kickoff", "hung"}}
Hung == {i \in Jobs : executor[i].st = "hung"}
Queued == {i \in Jobs : executor[i].st = "queued"}
Oldest(Q) == CHOOSE i \in Q : \A j \in Q : i <= j

\* C12: a work item whose kickoff() raised holds no worker: whenever fewer
\* than max_workers work items are inside create_crewai_setup, raised ones
\* or not, the oldest queued work item can be started ...
C12_WorkerFreed ==
    (Queued # {} /\ Cardinality(Busy) < max_workers) => ENABLED worker_start(Oldest(Queued))

\* ... and once some work item has raised, every other work item that is
\* queued or running comes to its end, unless its own kickoff() is stuck or
\* all max_workers workers are held by stuck calls.
StateOf(i) == IF i \in Jobs THEN executor[i].st ELSE "none"

C12_OthersComplete ==
    \A i \in 1..(max_workers + MaxJobs) :
        (StateOf(i) \in {"queued", "kickoff"} /\ \E j \in Jobs : executor[j].st = "raised")
        ~> (StateOf(i) \in {"done", "raised", "hung"} \/ Cardinality(Hung) = max_workers)

C12_PoolNotPoisoned == []C12_WorkerFreed /\ C12_OthersComplete

\* A work item raised while the other max_workers - 1 workers were held, and
\* a work item submitted behind it has run on the freed worker and returned.
C12_Witness ==
    \E j, i \in Jobs :
        /\ executor[j].st = "raised" /\ executor[i].st = "done" /\ j < i
        /\ {i, j} \notin overlapped
        /\ Cardinality(Hung) = max_workers - 1

(* ------------------------------------------------------------------ C13 *)
\* The bodies with all five fields present and non-empty.
ValidRequests == Requests \ RequestsWithMissing

\* C13: a valid Submit is answered "accepted" in its own step, whatever the
\* workers are doing: the step appends one work item in state queued and
\* changes no work item that was there ...
C13_AcceptStep ==
    (\E a \in ValidRequests : analyze(a[1], a[2], a[3], a[4], a[5]))
    => /\ response' = Resp("analyze", 200, ProcessingStarted)
       /\ Len(executor') = Len(executor) + 1
       /\ executor'[Len(executor')].st = "queued"
       /\ SubSeq(executor', 1, Len(executor)) = executor

\* ... and nothing but the bound of the model keeps a valid Submit from
\* being taken: not the number of busy workers, not the number of queued items.
C13_NeverSaturated ==
    submitted < MaxJobs
    => \A a \in ValidRequests : ENABLED analyze(a[1], a[2], a[3], a[4], a[5])

C13_SubmitNeverWaits == []C13_NeverSaturated /\ [][C13_AcceptStep]_vars

\* All max_workers workers are busy, and a work item accepted on top of them
\* sits in the queue.
C13_Witness ==
    /\ Cardinality(Busy) = max_workers
    /\ submitted >= 1
    /\ executor[Len(executor)].st = "queued"
    /\ response = Resp("analyze", 200, ProcessingStarted)

(* ------------------------------------------------------------------ C14 *)
\* C14: never more than max_workers work items are inside
\* create_crewai_setup ...
C14_AtMostFiveRunning == Cardinality(Busy) <= max_workers

\* ... and a queued work item leaves the queue only in a step before which
\* fewer than max_workers were: while max_workers are running it stays queued,
\* and the step in which one of them ends starts nothing.
C14_StartNeedsFreeWorker ==
    \A i \in Jobs :
        (executor[i].st = "queued" /\ executor'[i].st # "queued")
        => /\ Cardinality(Busy) < max_workers
           /\ executor'[i].st = "kickoff"
           /\ Busy' = Busy \cup {i}

C14_PoolBound == []C14_AtMostFiveRunning /\ [][C14_StartNeedsFreeWorker]_vars

\* max_workers work items are running, one of them started from the queue,
\* and another one is waiting in the queue.
C14_Witness ==
    /\ Cardinality(Busy) = max_workers
    /\ Queued # {}
    /\ \E i \in Busy : i > max_workers

(* ------------------------------------------------------------------ C15 *)
\* How often an entry occurs in a sequence of entries.
Count(q, e) == Cardinality({k \in DOMAIN q : q[k] = e})
\* The get_logs calls that have returned, and what they returned.
Returned == SelectSeq(calls, LAMBDA c : c.pc = "done")

\* C15: when ReadResult returns the Outcome of a work item, every entry the
\* work item wrote is in the queue or was returned by a get_logs call that
\* has returned (writes is the output of work item i where i is the only one) ...
C15_EntriesAccounted ==
    \A i \in Jobs :
        (Jobs = {i} /\ executor[i].st = "done"
                    /\ ReadResult(executor[i].args) = OutcomeOf(i))
        => \A e \in {strip(m) : m \in Messages} :
              Count(Entries(writes), e)
                  <= Count(output_queue, e) + Count(Delivered(Returned), e)

\* ... and a work item that has ended writes nothing more.
C15_NoWriteAfterEnd ==
    \A i \in Jobs : Ended(i) => \A m \in Messages : ~write(i, m)

C15_LogsBeforeOutcome == []C15_EntriesAccounted /\ [][C15_NoWriteAfterEnd]_vars

(* ------------------------------------------------------------------ C16 *)
\* C16: a work item only moves queued -> kickoff -> done | raised ("hung" is
\* a kickoff that stays one): its arguments never change, the step from
\* queued to kickoff is the one invocation of create_crewai_setup and nothing
\* leads back to it, and an ended work item never changes again ...
C16_Lifecycle ==
    \A i \in Jobs :
        /\ executor'[i].args = executor[i].args
        /\ \/ executor'[i].st = executor[i].st
           \/ executor[i].st = "queued" /\ executor'[i].st = "kickoff"
           \/ executor[i].st = "kickoff" /\ executor'[i].st \in {"done", "raised", "hung"}
        /\ Ended(i) => executor'[i] = executor[i]

\* ... and no step of analyze, get_logs or get_crew_result changes a work
\* item that is there.
C16_HandlerStep ==
    \/ \E a \in Requests : analyze(a[1], a[2], a[3], a[4], a[5])
    \/ \E a \in ReadArgs : get_crew_result(a[1], a[2], a[3], a[4], a[5])
    \/ get_logs_call
    \/ \E k \in DOMAIN calls : get_logs_check(k) \/ get_logs_get(k) \/ get_logs_return(k)

C16_HandlersLeaveJobs ==
    SubSeq(executor', 1, Len(executor)) = executor \/ ~C16_HandlerStep

C16_JobStateMachine == [][C16_Lifecycle /\ C16_HandlersLeaveJobs]_vars

\* A work item submitted after another had returned has raised, and calls
\* of all three routes have been answered.
C16_Witness ==
    /\ \E i, j \in Jobs : executor[i].st = "done" /\ executor[j].st = "raised" /\ i < j
    /\ \E k \in DOMAIN calls : calls[k].pc = "done" /\ calls[k].logs # <<>>
    /\ response.op = "crew_result"

(* ------------------------------------------------------------------ C17 *)
\* C17: no step removes a key from the store, so a ReadResult that has
\* returned an Outcome for a key never returns the sentinel for it again,
\* whatever is submitted, queued or running under that key; and the value
\* under a key changes only in the step in which a work item with that key
\* returns from kickoff().
C17_KeyStays ==
    \A k \in DOMAIN crew_result_store :
        /\ k \in DOMAIN crew_result_store'
        /\ store_get(crew_result_store', k) # NotAvailable
        /\ crew_result_store'[k] # crew_result_store[k]
           => \E i \in Jobs : /\ KeyOf(i) = k
                               /\ executor[i].st = "kickoff"
                               /\ executor'[i].st = "done"
                               /\ executor'[i].res = crew_result_store'[k]

C17_EntriesNeverDeleted == [][C17_KeyStays]_vars

\* A work item has returned, and one submitted later under the same key is
\* running while ReadResult still returns the Outcome of the first.
C17_Witness ==
    \E j, i \in Jobs :
        /\ j < i /\ KeyOf(j) = KeyOf(i)
        /\ executor[j].st = "done" /\ executor[i].st = "kickoff"
        /\ {i, j} \notin overlapped
        /\ ReadResult(executor[i].args) = OutcomeOf(j)

(* ------------------------------------------------------------------ C18 *)
\* A step of a request thread of /analyze or /crew_result, and one of /logs.
C18_SubmitOrReadResultStep ==
    \/ \E a \in Requests : analyze(a[1], a[2], a[3], a[4], a[5])
    \/ \E a \in ReadArgs : get_crew_result(a[1], a[2], a[3], a[4], a[5])

C18_ReadLogsStep ==
    \/ get_logs_call
    \/ \E k \in DOMAIN calls : get_logs_check(k) \/ get_logs_get(k) \/ get_logs_return(k)

\* C18: the store changes only in the step in which a work item returns from
\* kickoff(), never in a step of analyze, get_crew_result or get_logs ...
C18_StoreFrame ==
    \/ crew_result_store' = crew_result_store
    \/ /\ ~C18_SubmitOrReadResultStep /\ ~C18_ReadLogsStep
       /\ \E i \in Jobs : executor[i].st = "kickoff" /\ executor'[i].st = "done"

\* ... the queue never changes in a step of analyze or get_crew_result, and a
\* step of get_logs changes it only by taking its oldest entry into the list
\* that the call returns.
C18_QueueFrame ==
    \/ output_queue' = output_queue
    \/ /\ ~C18_SubmitOrReadResultStep
       /\ C18_ReadLogsStep =>
             \E k \in DOMAIN calls :
                /\ calls[k].pc = "get"
                /\ output_queue = <<Head(output_queue)>> \o output_queue'
                /\ calls'[k].logs = Append(calls[k].logs, Head(output_queue))
                /\ \A j \in DOMAIN calls \ {k} : calls'[j].logs = calls[j].logs

\* What a get_logs call has taken is what it returns.
C18_ReturnsWhatItTook ==
    \A k \in DOMAIN calls :
        (calls[k].pc = "ret" /\ calls'[k].pc = "done") => calls'[k].logs = calls[k].logs

AllHung == Cardinality(Hung) = max_workers

\* C19: a stuck call of kickoff() keeps its worker: no step changes a work
\* item in state "hung" ...
C19_HungStays ==
    \A i \in Jobs : executor[i].st = "hung" => executor'[i] = executor[i]

\* ... while fewer than max_workers calls are stuck, every other running work
\* item can return and, a worker being free, the oldest queued one can start ...
C19_OthersGoOn ==
    Cardinality(Hung) < max_workers
    => /\ \A i \in Jobs : executor[i].st = "kickoff"
                             => ENABLED create_crewai_setup(i, "r1")
       /\ (Queued # {} /\ Cardinality(Busy) < max_workers)
             => ENABLED worker_start(Oldest(Queued))

\* ... and once max_workers calls are stuck, every queued work item stays
\* queued, while a valid Submit is still accepted ...
C19_QueuedStay ==
    AllHung => \A i \in Jobs : executor[i].st = "queued" => executor'[i].st = "queued"

C19_StillAccepts ==
    (AllHung /\ submitted < MaxJobs)
    => \A a \in ValidRequests : ENABLED analyze(a[1], a[2], a[3], a[4], a[5])

\* ... and ReadResult for the key of a queued work item returns the sentinel.
C19_QueuedReadSentinel ==
    AllHung => \A i \in Queued : ReadResult(executor[i].args) = NotAvailable

\* The same with what ReadResult does return then: the store no longer
\* changes, and for the key of a queued work item it holds the sentinel
\* unless a work item with the same key has returned before.
C19_StoreFrozen == AllHung => crew_result_store' = crew_result_store

C19_QueuedReadUnchanged ==
    AllHung => \A i \in Queued :
        ReadResult(executor[i].args) = NotAvailable
        <=> ~\E j \in Jobs : executor[j].st = "done" /\ KeyOf(j) = KeyOf(i)

====
